---- MODULE Spec2Model ----
(***************************************************************************)
(* Model of suspicious_logins.py: one run is connect -> query -> export -> *)
(* summarize over the sqlite store logins.db, writing hits.csv and one     *)
(* line on stdout.  Runs can be repeated; between runs the environment may *)
(* insert login events into the store.                                     *)
(***************************************************************************)
EXTENDS Integers, Sequences, FiniteSets, TLC

\* ------------------------------------------------------------------ bounds
\* Largest number of rows the logins table holds in the model.
MaxEvents == 6

\* ------------------------------------------------------- the input domain
\* Values of the three columns of the logins table.  Names and days are
\* listed in ascending (BINARY collation) order.
UserOrder == <<"alice", "bob">>
DayOrder == <<"2024-01-01", "2024-01-02">>
Users == {UserOrder[i] : i \in 1..Len(UserOrder)}
Days == {DayOrder[i] : i \in 1..Len(DayOrder)}
IPs == {"10.0.0.1", "10.0.0.2", "10.0.0.3"}

\* A timestamp is a number of hours since 2024-01-01 00:00: the morning and
\* the evening of the first day and the morning of the second.
HoursPerDay == 24
Timestamps == {8, 20, 32}

Events == [username : Users, timestamp : Timestamps, ip_address : IPs]

\* The states of the file logins.db.
\*   missing    no such file, its directory is writable
\*   unopenable the file cannot be opened or created
\*   empty      a zero-byte file: a valid database with no table
\*   corrupt    a file that is not a database
\*   badschema  a database whose logins table lacks one of the columns
\*   ok         a database with a logins(username, timestamp, ip_address)
DbStates == {"missing", "unopenable", "empty", "corrupt", "badschema", "ok"}

VARIABLES
    dbState,      \* state of the file logins.db
    logins,       \* rows of the logins table (empty unless dbState = "ok")
    cwdWritable,  \* whether hits.csv can be opened for writing
    hitsCsv,      \* lines of hits.csv, each a sequence of fields; <<>> = no file
    pc,           \* position of the process in the script
    df,           \* the DataFrame: a sequence of rows
    stdout,       \* lines printed by this run
    exitCode,     \* -1 while running, 0 on success, 1 after an uncaught exception
    filesWritten, \* files this run has created or written
    steps,        \* statements this run has executed, in order, with outcome
    lastCsv,      \* hits.csv as the latest successful run left it
    unchanged     \* the store has not been modified since that run

vars == <<dbState, logins, cwdWritable, hitsCsv, pc, df, stdout, exitCode,
          filesWritten, steps, lastCsv, unchanged>>

\* -------------------------------------------------------------- the query
Threshold == 2

\* date(timestamp): the calendar day a timestamp falls on.
Date(ts) == DayOrder[(ts \div HoursPerDay) + 1]

\* GROUP BY username, day
GroupKeyByTimestamp(e) == <<e.username, e.timestamp>>
GroupKey(e) == <<e.username, Date(e.timestamp)>>

Groups(T) == {GroupKey(e) : e \in T}

Members(T, g) == {e \in T : GroupKey(e) = g}

\* COUNT(DISTINCT ip_address) over one group
IpCountRows(T, g) == Cardinality(Members(T, g))
IpCount(T, g) == Cardinality({e.ip_address : e \in Members(T, g)})

\* HAVING ip_count > 2
HavingLoose(n) == n >= Threshold
HavingStrict(n) == n > Threshold + 1
Having(n) == n > Threshold

Rank(seq, x) == CHOOSE i \in 1..Len(seq) : seq[i] = x

\* The earliest timestamp of a group.
First(T, g) ==
    CHOOSE t \in {e.timestamp : e \in Members(T, g)} :
        \A e \in Members(T, g) : t <= e.timestamp

\* The order in which sqlite's GROUP BY sorter yields the groups: ascending
\* by username, then by day (ISO dates sort as their timestamps do).
KeyLess(T, g, h) ==
    \/ Rank(UserOrder, g[1]) < Rank(UserOrder, h[1])
    \/ g[1] = h[1] /\ First(T, g) < First(T, h)

RECURSIVE SortKeys(_, _)
SortKeys(T, S) ==
    IF S = {} THEN <<>>
    ELSE LET m == CHOOSE g \in S : \A h \in S \ {g} : KeyLess(T, g, h)
         IN <<m>> \o SortKeys(T, S \ {m})

\* The result set of q over table T: one row per group that passes HAVING,
\* its columns computed from the rows of the group.
RunQuery(T) ==
    LET flagged == {g \in Groups(T) : Having(IpCount(T, g))}
        keys == SortKeys(T, flagged)
        row(g) ==
            LET rep == CHOOSE e \in Members(T, g) : TRUE
            IN [username |-> rep.username, day |-> Date(rep.timestamp),
                ip_count |-> IpCount(T, g)]
    IN [i \in 1..Len(keys) |-> row(keys[i])]

\* A SELECT leaves the table as it is.
StoreAfterDelete(T) == T \ {e \in T : Having(IpCount(T, GroupKey(e)))}
StoreAfterRead(T) == T

\* --------------------------------------------------------------- the export
\* Python values passed as arguments.
PyStr(s) == [type |-> "str", s |-> s, b |-> FALSE]
PyBool(b) == [type |-> "bool", s |-> "", b |-> b]

\* Python truth value: a string is true unless it is empty.
Truthy(v) == IF v.type = "bool" THEN v.b ELSE v.s # ""

\* The index argument of df.to_csv.
IndexArg == PyStr("False")

Columns == <<"username", "day", "ip_count">>

\* DataFrame.to_csv(index=...): with a true index the header starts with an
\* empty index label and every row with its 0-based position.
ToCsv(frame, index) ==
    LET header == IF Truthy(index) THEN <<"">> \o Columns ELSE Columns
        line(i) ==
            LET r == frame[i]
                fields == <<r.username, r.day, ToString(r.ip_count)>>
            IN IF Truthy(index) THEN <<ToString(i - 1)>> \o fields ELSE fields
    IN <<header>> \o [i \in 1..Len(frame) |-> line(i)]

\* to_csv opens the path in mode "w": the old content is discarded.
AppendFile(old, new) == old \o new
WriteFile(old, new) == new

\* f"Wrote {len(df)} rows"
SummaryWithHeader(frame) == <<"Wrote", ToString(Len(frame) + 1), "rows">>
Summary(frame) == <<"Wrote", ToString(Len(frame)), "rows">>

\* ------------------------------------------------------------ control flow
\* sqlite3.connect raises when the file cannot be opened or created.
ConnectFails(s) == s = "unopenable"

\* sqlite3.connect creates a missing file as an empty database.
AfterConnect(s) == IF s = "missing" THEN "empty" ELSE s

\* read_sql_query raises unless the logins table with its columns exists.
QueryFailsOnlyCorrupt(s) == s = "corrupt"
QueryFails(s) == s # "ok"

\* An uncaught exception ends the process; otherwise the next statement runs.
NextPcIgnoringFailure(failed, next) == next
NextPc(failed, next) == IF failed THEN "failed" ELSE next

\* The record of one executed statement.
Step(name, failed) == <<name, IF failed THEN "raised" ELSE "ok">>

ExitOf(p) == IF p = "failed" THEN 1 ELSE IF p = "done" THEN 0 ELSE -1

\* A report left in hits.csv by an earlier run against other data.
StaleReport ==
    ToCsv(<<[username |-> "bob", day |-> DayOrder[2], ip_count |-> 3]>>, IndexArg)

\* ----------------------------------------------------------------- states
Init ==
    /\ dbState \in DbStates
    /\ logins = {}
    /\ cwdWritable \in BOOLEAN
    /\ hitsCsv \in {<<>>, StaleReport}
    /\ pc = "start"
    /\ df = <<>>
    /\ stdout = <<>>
    /\ exitCode = -1
    /\ filesWritten = {}
    /\ steps = <<>>
    /\ lastCsv = <<>>
    /\ unchanged = FALSE

\* Another process inserts a login event between two runs.
InsertLogin ==
    /\ pc = "start"
    /\ dbState = "ok"
    /\ Cardinality(logins) < MaxEvents
    /\ \E e \in Events \ logins : logins' = logins \cup {e}
    /\ unchanged' = FALSE
    /\ UNCHANGED <<dbState, cwdWritable, hitsCsv, pc, df, stdout, exitCode,
                   filesWritten, steps, lastCsv>>

\* con=sqlite3.connect("logins.db")
Connect ==
    /\ pc = "start"
    /\ pc' = NextPc(ConnectFails(dbState), "connected")
    /\ exitCode' = ExitOf(pc')
    /\ steps' = Append(steps, Step("connect", ConnectFails(dbState)))
    /\ IF ConnectFails(dbState)
       THEN UNCHANGED <<dbState, filesWritten>>
       ELSE /\ dbState' = AfterConnect(dbState)
            /\ filesWritten' = IF dbState = "missing"
                               THEN filesWritten \cup {"logins.db"}
                               ELSE filesWritten
    /\ UNCHANGED <<logins, cwdWritable, hitsCsv, df, stdout, lastCsv, unchanged>>

\* df=pd.read_sql_query(q, con)
Query ==
    /\ pc = "connected"
    /\ pc' = NextPc(QueryFails(dbState), "queried")
    /\ exitCode' = ExitOf(pc')
    /\ steps' = Append(steps, Step("query", QueryFails(dbState)))
    /\ IF QueryFails(dbState)
       THEN UNCHANGED <<df, logins>>
       ELSE /\ df' = RunQuery(logins)
            /\ logins' = StoreAfterRead(logins)
    /\ UNCHANGED <<dbState, cwdWritable, hitsCsv, stdout, filesWritten,
                   lastCsv, unchanged>>

\* df.to_csv("hits.csv", index="False")
Export ==
    /\ pc = "queried"
    /\ pc' = NextPc(~cwdWritable, "exported")
    /\ exitCode' = ExitOf(pc')
    /\ steps' = Append(steps, Step("export", ~cwdWritable))
    /\ IF cwdWritable
       THEN /\ hitsCsv' = WriteFile(hitsCsv, ToCsv(df, IndexArg))
            /\ filesWritten' = filesWritten \cup {"hits.csv"}
       ELSE UNCHANGED <<hitsCsv, filesWritten>>
    /\ UNCHANGED <<dbState, logins, cwdWritable, df, stdout, lastCsv, unchanged>>

\* print(f"Wrote {len(df)} rows")
Summarize ==
    /\ pc = "exported"
    /\ pc' = "done"
    /\ exitCode' = ExitOf(pc')
    /\ steps' = Append(steps, Step("summarize", FALSE))
    /\ stdout' = Append(stdout, Summary(df))
    /\ UNCHANGED <<dbState, logins, cwdWritable, hitsCsv, df, filesWritten,
                   lastCsv, unchanged>>

\* The program is started again: a fresh process, the files as they are.
Invoke ==
    /\ pc \in {"done", "failed"}
    /\ pc' = "start"
    /\ df' = <<>>
    /\ stdout' = <<>>
    /\ exitCode' = -1
    /\ filesWritten' = {}
    /\ steps' = <<>>
    /\ IF pc = "done"
       THEN lastCsv' = hitsCsv /\ unchanged' = TRUE
       ELSE UNCHANGED <<lastCsv, unchanged>>
    /\ UNCHANGED <<dbState, logins, cwdWritable, hitsCsv>>

Next ==
    \/ InsertLogin
    \/ Connect
    \/ Query
    \/ Export
    \/ Summarize
    \/ Invoke

Spec == Init /\ [][Next]_vars

\* ------------------------------------------------- reading the report back
\* This run has written hits.csv.
Reported == "hits.csv" \in filesWritten

\* The position of a named column in the header line of hits.csv.
Col(name) == CHOOSE i \in 1..Len(hitsCsv[1]) : hitsCsv[1][i] = name

DataLines == 2..Len(hitsCsv)
RowUser(i) == hitsCsv[i][Col("username")]
RowDay(i) == hitsCsv[i][Col("day")]
RowCount(i) == hitsCsv[i][Col("ip_count")]
HasRow(u, d) == \E i \in DataLines : RowUser(i) = u /\ RowDay(i) = d

\* Timestamp ts lies within calendar day d.
FallsOn(ts, d) ==
    \E k \in 1..Len(DayOrder) :
        /\ DayOrder[k] = d
        /\ (k - 1) * HoursPerDay <= ts
        /\ ts < k * HoursPerDay

\* The number of distinct addresses user u logged in from on day d.
TrueCount(u, d) ==
    Cardinality({e.ip_address :
                    e \in {x \in logins : x.username = u /\ FallsOn(x.timestamp, d)}})

\* ------------------------------------------------------------------ claims
\* C1: every data row of hits.csv has ip_count > 2, and a (username, day)
\* group with 2 or fewer distinct addresses has no row.
C1_RowsExceedTwo ==
    Reported =>
        /\ \A i \in DataLines :
              \E n \in 0..Cardinality(logins) : n > 2 /\ RowCount(i) = ToString(n)
        /\ \A u \in Users, d \in Days : TrueCount(u, d) <= 2 => ~HasRow(u, d)

\* A report with a row, over a table that also holds a group of exactly two
\* distinct addresses.
C1_Witness ==
    /\ pc = "done"
    /\ Len(hitsCsv) > 1
    /\ \E u \in Users, d \in Days : TrueCount(u, d) = 2

\* C2: the ip_count of every row is the number of distinct addresses among
\* the logins of that user on that day.
C2_CountIsDistinctAddresses ==
    Reported =>
        \A i \in DataLines :
            /\ RowUser(i) \in Users
            /\ RowDay(i) \in Days
            /\ RowCount(i) = ToString(TrueCount(RowUser(i), RowDay(i)))

\* A row for a user who logged in twice from one address that day, while
\* the other user and the other day have logins too.
C2_Witness ==
    /\ pc = "done"
    /\ \E i \in DataLines :
          LET u == RowUser(i)
              d == RowDay(i)
          IN /\ \E e, f \in logins :
                    /\ e.username = u /\ f.username = u
                    /\ FallsOn(e.timestamp, d) /\ FallsOn(f.timestamp, d)
                    /\ e.ip_address = f.ip_address /\ e.timestamp # f.timestamp
             /\ \E e \in logins : e.username # u /\ FallsOn(e.timestamp, d)
             /\ \E e \in logins : e.username = u /\ ~FallsOn(e.timestamp, d)

\* C3: a (username, day) pair has a row if and only if the user logged in
\* from more than 2 distinct addresses on that day.
C3_RowIffMoreThanTwo ==
    Reported =>
        /\ \A u \in Users, d \in Days : HasRow(u, d) <=> TrueCount(u, d) > 2
        /\ \A i \in DataLines : RowUser(i) \in Users /\ RowDay(i) \in Days

\* alice with 3 addresses on 2024-01-01 and 1 on 2024-01-02: the report
\* holds the one row alice,2024-01-01,3.
C3_Witness ==
    /\ pc = "done"
    /\ \A e \in logins : e.username = "alice"
    /\ TrueCount("alice", "2024-01-01") = 3
    /\ TrueCount("alice", "2024-01-02") = 1
    /\ Len(hitsCsv) = 2
    /\ <<RowUser(2), RowDay(2), RowCount(2)>> = <<"alice", "2024-01-01", "3">>

\* C4: no (username, day) pair is in two data rows.
C4_OneRowPerPair ==
    Reported =>
        \A i, j \in DataLines :
            RowUser(i) = RowUser(j) /\ RowDay(i) = RowDay(j) => i = j

\* A report of two rows over a table in which a flagged user logged in at
\* two different times of the day.
C4_Witness ==
    /\ pc = "done"
    /\ Len(hitsCsv) = 3
    /\ \E e, f \in logins :
          /\ e.username = f.username
          /\ e.timestamp # f.timestamp
          /\ HasRow(e.username, Date(e.timestamp))
          /\ Date(e.timestamp) = Date(f.timestamp)

\* C5: the header is exactly username,day,ip_count and every data row has
\* exactly three fields.
C5_HeaderAndThreeFields ==
    Reported =>
        /\ hitsCsv[1] = <<"username", "day", "ip_count">>
        /\ \A i \in DataLines : Len(hitsCsv[i]) = 3

\* C6: the printed line is Wrote <N> rows with N the number of data rows of
\* hits.csv, which is the number of flagged pairs; an empty table gives a
\* header-only file and Wrote 0 rows.
C6_SummaryCountsRows ==
    pc = "done" =>
        /\ stdout = << <<"Wrote", ToString(Len(hitsCsv) - 1), "rows">> >>
        /\ Len(hitsCsv) - 1 =
              Cardinality({p \in Users \X Days : TrueCount(p[1], p[2]) > 2})
        /\ logins = {} =>
              /\ Len(hitsCsv) = 1
              /\ stdout = << <<"Wrote", "0", "rows">> >>

\* A finished run that reported two rows.
C6_Witness ==
    /\ pc = "done"
    /\ Len(hitsCsv) = 3
    /\ stdout = << <<"Wrote", "2", "rows">> >>

Script == <<"connect", "query", "export", "summarize">>

C8_LinearRun ==
    /\ Len(steps) <= Len(Script)
    /\ \A i \in 1..Len(steps) : steps[i][1] = Script[i]
    /\ \A i \in 1..Len(steps) : steps[i][2] = "raised" =>
          /\ i = Len(steps)
          /\ pc = "failed"
          /\ exitCode = 1
          /\ stdout = <<>>
    /\ pc = "failed" => steps # <<>> /\ steps[Len(steps)][2] = "raised"
    /\ stdout # <<>> => Reported
    /\ pc = "done" =>
          /\ exitCode = 0
          /\ [i \in 1..Len(steps) |-> steps[i][1]] = Script
          /\ filesWritten = {"hits.csv"}
          /\ Len(stdout) = 1

\* A run whose file write raised after a successful query.
C8_Witness ==
    /\ pc = "failed"
    /\ Len(steps) = 3
    /\ Len(df) > 0

\* C9: a run against a store unchanged since the latest successful run
\* leaves hits.csv with the content that run left; what a run writes is
\* determined by the table, whatever hits.csv held before.
C9_SameStoreSameReport ==
    /\ pc = "done" /\ unchanged => hitsCsv = lastCsv
    /\ Reported => hitsCsv = ToCsv(RunQuery(logins), IndexArg)

\* A second successful run over an unchanged table with flagged pairs.
C9_Witness ==
    /\ pc = "done"
    /\ unchanged
    /\ Len(lastCsv) > 1

\* C10: no statement of the program changes the rows of the logins table,
\* and a run starts with an empty DataFrame and nothing printed.
C10_StoreOnlyRead ==
    /\ [][pc' # pc => logins' = logins]_vars
    /\ [](pc = "start" => df = <<>> /\ stdout = <<>> /\ filesWritten = {})

\* A run over a table with flagged rows has finished, after an earlier run.
C10_Witness ==
    /\ pc = "done"
    /\ Len(df) > 0
    /\ lastCsv # <<>>

====
